---- MODULE Spec2Model ----
(***************************************************************************)
(* Model of the alert backend in src/backend/app.py: the two WebSocket     *)
(* connection registries (ConnectionManager, NetworkConnectionManager),    *)
(* the in-memory alert store (alerts, alert_history), the HTTP handlers    *)
(* that ingest, update and query alerts, and the WebSocket endpoints.      *)
(* The threat detection model of src/backend/ml_model.py                   *)
(* (ThreatDetectionModel: predict, update_thresholds, update_weights) is   *)
(* modelled next to it, and so are the polling loops of src/api.py         *)
(* (run_monitor_thread, monitor_system_task) and of                        *)
(* src/windows10_monitor.py (monitor_loop).                                *)
(*                                                                         *)
(* The program runs on one asyncio event loop: a handler runs without      *)
(* interruption from one await to the next.  Every action below is one     *)
(* such run: it starts where a coroutine is resumed and ends where the     *)
(* coroutine awaits again or returns.                                      *)
(*                                                                         *)
(* Modelling conventions                                                   *)
(*  - A Python dict that is a JSON object (an alert) is a record with a    *)
(*    field "keys", the set of keys the dict has; the value recorded for   *)
(*    a key the dict lacks is a filler (0 or "") that no operator reads    *)
(*    without first testing "keys".  Reading d[k] for an absent key is a   *)
(*    KeyError, modelled as the error result of the operator.              *)
(*  - alerts and alert_history hold references to the same dict objects;   *)
(*    the objects live in alertObjs (creation order) and both lists hold   *)
(*    indices into it, so that a status update is seen through both.       *)
(*  - Timestamps are ISO-8601 strings of naive local datetimes in the      *)
(*    code; here a timestamp is the number of whole hours it denotes and   *)
(*    the clock has a resolution of one hour.                              *)
(*  - A registry dict (active_connections) is the sequence of its entry    *)
(*    slots in insertion order; a deleted entry leaves a slot holding 0,   *)
(*    as in CPython's entry table, so that an iterator position stays      *)
(*    meaningful across deletions.  The table is never compacted within    *)
(*    the bounds used here (fewer than 6 insertions per registry).         *)
(*  - uuid4() yields an id never used before; a WebSocket's generated      *)
(*    client id is modelled by the index of the WebSocket.                 *)
(*  - The detection model of src/backend/ml_model.py computes with Python  *)
(*    floats.  A float is modelled by the exact rational it stands for, a  *)
(*    record [n, d] in lowest terms with d > 0; rounding errors of the     *)
(*    order of 1e-16 are not modelled.                                     *)
(***************************************************************************)
EXTENDS Integers, Sequences, FiniteSets, TLC

VARIABLES
    alertObjs,        \* the alert dict objects, in creation order
    alerts,           \* app.py:250  list of references, newest first
    alert_history,    \* app.py:251  deque(maxlen=1000) of references
    network_data,     \* app.py:254  telemetry deques
    manager,          \* app.py:139  ConnectionManager instance
    network_manager,  \* app.py:230  NetworkConnectionManager instance
    ws,               \* per WebSocket: the state of its endpoint coroutine
    tasks,            \* HTTP handlers suspended inside a broadcast
    nreq,             \* number of HTTP requests accepted so far
    resp,             \* the HTTP response the last step completed, if any
    lastBroadcast,    \* outcome of the broadcast call the last step finished
    default_model,    \* ml_model.py:177  the ThreatDetectionModel instance
    ml_result,        \* what the last call of a method of the model returned
    ncalls,           \* number of update calls made on the model so far
    api_alerts,       \* api.py:44  the alert list of the monitoring API
    loops             \* per polling loop: where it is, ticks done, errors logged

\* The state of the backend (app.py) and of the detection model (ml_model.py).
appvars == <<alertObjs, alerts, alert_history, network_data, manager,
             network_manager, ws, tasks, nreq, resp, lastBroadcast>>
mlvars == <<default_model, ml_result, ncalls>>
\* The state of the polling loops (api.py, windows10_monitor.py).
pollvars == <<api_alerts, loops>>

vars == <<alertObjs, alerts, alert_history, network_data, manager,
          network_manager, ws, tasks, nreq, resp, lastBroadcast,
          default_model, ml_result, ncalls, api_alerts, loops>>

-----------------------------------------------------------------------------
(* Bounds of the model *)

MaxWs == 2          \* WebSockets that ever connect
MaxReqs == 2        \* HTTP requests accepted in a run of Spec
MaxEvents == 3      \* WebSockets accepted plus HTTP requests accepted in Spec
MaxStoreReqs == 3   \* HTTP requests accepted in a run of SpecStore
MaxEvictReqs == 1002 \* alerts ingested in a run of SpecEvict
MaxModelCalls == 2  \* update calls on the detection model in SpecModel
MaxTicks == 3       \* ticks of each polling loop in SpecPoll
MaxMixedReqs == 2   \* first requests of SpecHistory, of either kind
MaxOrderReqs == 2   \* alerts ingested in a run of SpecOrder
MaxRegistryCalls == 4 \* calls of methods of the registry in SpecRegistry
MaxDeliverWs == 3   \* WebSockets that ever connect in a run of SpecDeliver
MaxDeliverReqs == 1 \* alerts ingested in a run of SpecDeliver
MaxSnapshotReqs == 52 \* alerts ingested in a run of SpecSnapshot

-----------------------------------------------------------------------------
(* Program constants *)

HistoryMaxLen == 1000
NetworkMaxLen == 100

STATUS_OPTIONS == {"open", "investigating", "resolved"}

RequiredFields == {"id", "threat_type", "severity", "timestamp"}

severity_weights == [low |-> 1, medium |-> 3, high |-> 5, critical |-> 10]

-----------------------------------------------------------------------------
(* Helpers on sequences *)

Max(a, b) == IF a >= b THEN a ELSE b
Min(a, b) == IF a <= b THEN a ELSE b

Range(s) == {s[i] : i \in DOMAIN s}

\* s[lo:hi] of Python for 0 <= lo, 0 <= hi (0-based, hi exclusive)
Slice(s, lo, hi) ==
    LET a == Min(lo, Len(s))
        b == Max(a, Min(hi, Len(s)))
    IN  SubSeq(s, a + 1, b)

\* deque(maxlen=m).append(x): the oldest entry is dropped when full
DequeAppendDropNewest(d, x, m) == IF Len(d) >= m THEN d ELSE Append(d, x)

DequeAppendDeferred(d, x, m) == d

DequeAppend(d, x, m) ==
    IF Len(d) >= m THEN Append(Tail(d), x) ELSE Append(d, x)

-----------------------------------------------------------------------------
(* Alert payloads *)

\* The dict with the keys ks; values of absent keys are fillers.
AlertDict(ks, id, severity, timestamp, status) ==
    [keys      |-> ks,
     id        |-> IF "id" \in ks THEN id ELSE 0,
     severity  |-> IF "severity" \in ks THEN severity ELSE "",
     timestamp |-> IF "timestamp" \in ks THEN timestamp ELSE 0,
     status    |-> IF "status" \in ks THEN status ELSE ""]

AllFields == RequiredFields \cup {"status"}

\* if not all(key in alert for key in [...])  -- the negation of the test
HasRequiredFieldsAny(a) == \E k \in RequiredFields : k \in a.keys

HasRequiredFields(a) == \A k \in RequiredFields : k \in a.keys

-----------------------------------------------------------------------------
(* Queries on the alert store (pure functions of the state) *)

\* The dict objects the live list holds, newest first.
LiveAlerts == [i \in DOMAIN alerts |-> alertObjs[alerts[i]]]

\* The dict objects the history holds, oldest first.
HistoryAlerts == [i \in DOMAIN alert_history |-> alertObjs[alert_history[i]]]

\* [a for a in s if a["severity"] == severity]; every stored alert has the key
RECURSIVE FilterSeverity(_, _)
FilterSeverity(s, severity) ==
    IF s = <<>> THEN <<>>
    ELSE (IF Head(s).severity = severity THEN <<Head(s)>> ELSE <<>>)
         \o FilterSeverity(Tail(s), severity)

\* [a for a in s if a["status"] == status], for s whose dicts all have the key
RECURSIVE FilterStatus(_, _)
FilterStatus(s, status) ==
    IF s = <<>> THEN <<>>
    ELSE (IF Head(s).status = status THEN <<Head(s)>> ELSE <<>>)
         \o FilterStatus(Tail(s), status)

\* a["status"] raises KeyError for some a of s
StatusKeyError(s) == \E i \in DOMAIN s : "status" \notin s[i].keys

\* GET /alerts.  A filter that is None or "" is not applied ("if severity:").
\* An unhandled KeyError is answered with status 500.
get_alerts(limit, offset, severity, status) ==
    LET f1 == IF severity # "" THEN FilterSeverity(LiveAlerts, severity)
              ELSE LiveAlerts
    IN  IF status # "" /\ StatusKeyError(f1)
        THEN [code |-> 500, body |-> <<>>]
        ELSE LET f2 == IF status # "" THEN FilterStatus(f1, status) ELSE f1
             IN  [code |-> 200, body |-> Slice(f2, offset, offset + limit)]

\* GET /alerts/{alert_id}: the first alert of the live list with that id.
get_alert(alert_id) ==
    LET hits == {i \in DOMAIN alerts : LiveAlerts[i].id = alert_id}
    IN  IF hits = {} THEN [code |-> 404, body |-> <<>>]
        ELSE [code |-> 200,
              body |-> <<LiveAlerts[CHOOSE i \in hits : \A j \in hits : i <= j]>>]

\* a.get("severity") == severity and a.get("status") == "open"
IsOpenWithSeverity(a, severity) ==
    /\ "severity" \in a.keys /\ a.severity = severity
    /\ "status" \in a.keys /\ a.status = "open"

\* severity_counts[severity], app.py:495-496
severity_counts(severity) ==
    Cardinality({i \in DOMAIN alerts : IsOpenWithSeverity(LiveAlerts[i], severity)})

\* app.py:499
weighted_sum ==
    severity_counts("low") * severity_weights["low"]
    + severity_counts("medium") * severity_weights["medium"]
    + severity_counts("high") * severity_weights["high"]
    + severity_counts("critical") * severity_weights["critical"]

\* app.py:502
security_score == Max(0, 100 - Min(weighted_sum * 2, 100))

\* The alerts the histogram is computed from (app.py:514).
HistogramSourceLive == LiveAlerts

HistogramSource == HistoryAlerts

\* alerts_by_hour[i].count for the clock reading now, app.py:509-516
HourCount(now, i) ==
    LET hour_start == (now - 24) + i
        hour_end   == (now - 24) + (i + 1)
        src        == HistogramSource
    IN  Cardinality({k \in DOMAIN src :
            /\ "timestamp" \in src[k].keys
            /\ hour_start <= src[k].timestamp
            /\ src[k].timestamp < hour_end})

alerts_by_hour(now) ==
    [i \in 0..23 |-> [hour |-> (now - (24 - i)) % 24, count |-> HourCount(now, i)]]

\* GET /dashboard/summary at clock reading now.  Lines 488-489 read
\* a["status"] of every alert of the live list: a KeyError there is
\* unhandled and answered with status 500.
get_dashboard_summary(now) ==
    IF StatusKeyError(LiveAlerts)
    THEN [code |-> 500, total_alerts |-> 0, open_alerts |-> 0,
          critical_alerts |-> 0, security_score |-> 0,
          alerts_by_hour |-> [i \in 0..23 |-> [hour |-> 0, count |-> 0]]]
    ELSE [code |-> 200,
          total_alerts |-> Len(alerts),
          open_alerts |-> Cardinality({i \in DOMAIN alerts :
                                          LiveAlerts[i].status = "open"}),
          critical_alerts |-> Cardinality({i \in DOMAIN alerts :
                                 /\ LiveAlerts[i].severity = "critical"
                                 /\ LiveAlerts[i].status = "open"}),
          security_score |-> security_score,
          alerts_by_hour |-> alerts_by_hour(now)]

-----------------------------------------------------------------------------
(* The connection registries *)

Channels == {"alerts", "network"}

NewStats == [total_connections |-> 0, total_disconnections |-> 0,
             messages_sent |-> 0, errors |-> 0]

\* ConnectionManager.__init__ / NetworkConnectionManager.__init__
NewManager == [active_connections |-> <<>>, connection_timestamps |-> {},
               stats |-> NewStats]

\* The keys of a registry dict, and len() of it.
ActiveIds(m) == Range(m.active_connections) \ {0}
Used(slots) == Cardinality({i \in DOMAIN slots : slots[i] # 0})

\* d[key] = value: a new key takes the next entry slot, an existing key
\* keeps its slot.
DictSet(slots, key) ==
    IF key \in Range(slots) THEN slots ELSE Append(slots, key)

\* d.pop(key, None): the entry slot is emptied, not reused.
DictPop(slots, key) ==
    [i \in DOMAIN slots |-> IF slots[i] = key THEN 0 ELSE slots[i]]

\* The part of connect() after the handshake succeeded (app.py:55-57).
Register(m, client_id) ==
    [active_connections |-> DictSet(m.active_connections, client_id),
     connection_timestamps |-> m.connection_timestamps \cup {client_id},
     stats |-> [m.stats EXCEPT !.total_connections = @ + 1]]

\* The except branch of connect() (app.py:62-65).
ConnectFailed(m) == [m EXCEPT !.stats.errors = @ + 1]

\* ConnectionManager.disconnect
CM_disconnectCounting(m, client_id) ==
    [active_connections |-> DictPop(m.active_connections, client_id),
     connection_timestamps |-> m.connection_timestamps \ {client_id},
     stats |-> [m.stats EXCEPT !.total_disconnections = @ + 1]]

CM_disconnect(m, client_id) ==
    IF client_id \in ActiveIds(m)
    THEN [active_connections |-> DictPop(m.active_connections, client_id),
          connection_timestamps |-> m.connection_timestamps \ {client_id},
          stats |-> [m.stats EXCEPT !.total_disconnections = @ + 1]]
    ELSE m

\* NetworkConnectionManager.disconnect
NCM_disconnect(m, client_id) ==
    IF client_id \in ActiveIds(m)
    THEN IF client_id \in m.connection_timestamps
         THEN [active_connections |-> DictPop(m.active_connections, client_id),
               connection_timestamps |-> m.connection_timestamps \ {client_id},
               stats |-> [m.stats EXCEPT !.total_disconnections = @ + 1]]
         ELSE [m EXCEPT !.active_connections = DictPop(@, client_id)]
    ELSE m

DisconnectKeeping(ch, m, client_id) == m

Disconnect(ch, m, client_id) ==
    IF ch = "alerts" THEN CM_disconnect(m, client_id)
    ELSE NCM_disconnect(m, client_id)

\* for client_id in disconnected_clients: self.disconnect(client_id)
RECURSIVE DisconnectAll(_, _, _)
DisconnectAll(ch, m, disconnected_clients) ==
    IF disconnected_clients = <<>> THEN m
    ELSE DisconnectAll(ch, Disconnect(ch, m, Head(disconnected_clients)),
                       Tail(disconnected_clients))

\* The iterator of "for client_id, connection in active_connections.items()".
\* CPython's dict iterator remembers the size of the dict when it was
\* created (di_used), the next entry slot to look at (di_pos) and the number
\* of items still expected (len).
IterNew(slots) == [di_used |-> Used(slots), di_pos |-> 1, len |-> Used(slots)]

\* One __next__ of the iterator: "item" with the key found, "stop" at the
\* end of the entry table, or "error" for the RuntimeError raised when the
\* dict changed size, or changed keys, since the iterator was created.
IterNext(slots, it) ==
    LET rest == {i \in DOMAIN slots : i >= it.di_pos /\ slots[i] # 0}
    IN  IF it.di_used # Used(slots)
        THEN [kind |-> "error", it |-> it, key |-> 0]
        ELSE IF rest = {}
        THEN [kind |-> "stop", it |-> it, key |-> 0]
        ELSE IF it.len = 0
        THEN [kind |-> "error", it |-> it, key |-> 0]
        ELSE LET i == CHOOSE i \in rest : \A j \in rest : i <= j
             IN  [kind |-> "item",
                  it |-> [it EXCEPT !.di_pos = i + 1, !.len = @ - 1],
                  key |-> slots[i]]

\* return len(self.active_connections) - len(disconnected_clients),
\* evaluated after the clean-up loop (app.py:101, app.py:204).
BroadcastReturn(m, disconnected_clients) ==
    Used(m.active_connections) - Len(disconnected_clients)

MgrShared(ch) == manager

Mgr(ch) == IF ch = "alerts" THEN manager ELSE network_manager

SetMgr(ch, m) ==
    /\ manager' = IF ch = "alerts" THEN m ELSE manager
    /\ network_manager' = IF ch = "alerts" THEN network_manager ELSE m

-----------------------------------------------------------------------------
(* Exact rational arithmetic, standing for Python's float arithmetic *)

Abs(x) == IF x < 0 THEN -x ELSE x

RECURSIVE GCD(_, _)
GCD(a, b) == IF b = 0 THEN a ELSE GCD(b, a % b)

\* The rational n/d (d # 0) in lowest terms with a positive denominator.
Rat(n, d) ==
    LET g == GCD(Abs(n), Abs(d))
        s == IF d < 0 THEN -1 ELSE 1
    IN  [n |-> (s * n) \div g, d |-> (s * d) \div g]

RatAdd(a, b) == Rat(a.n * b.d + b.n * a.d, a.d * b.d)
RatSub(a, b) == Rat(a.n * b.d - b.n * a.d, a.d * b.d)
RatMul(a, b) == Rat(a.n * b.n, a.d * b.d)
RatDiv(a, b) == Rat(a.n * b.d, a.d * b.n)
RatLess(a, b) == a.n * b.d < b.n * a.d
RatMin(a, b) == IF RatLess(b, a) THEN b ELSE a

-----------------------------------------------------------------------------
(* The threat detection model: ThreatDetectionModel of ml_model.py *)

\* self.features, in list order
Features == <<"packet_count", "connection_duration", "bytes_transferred",
              "packet_rate", "port_number", "protocol_type", "flag_count">>

FeatureNames == Range(Features)

\* self.thresholds as set by __init__
DefaultThresholds ==
    [packet_count |-> Rat(1000, 1), connection_duration |-> Rat(300, 1),
     bytes_transferred |-> Rat(500000, 1), packet_rate |-> Rat(100, 1),
     port_number |-> Rat(1024, 1), protocol_type |-> Rat(1, 1),
     flag_count |-> Rat(5, 1)]

\* self.weights as set by __init__: 0.15, 0.1, 0.2, 0.25, 0.05, 0.1, 0.15
DefaultWeights ==
    [packet_count |-> Rat(15, 100), connection_duration |-> Rat(10, 100),
     bytes_transferred |-> Rat(20, 100), packet_rate |-> Rat(25, 100),
     port_number |-> Rat(5, 100), protocol_type |-> Rat(10, 100),
     flag_count |-> Rat(15, 100)]

\* ThreatDetectionModel() without a model file
NewModel == [thresholds |-> DefaultThresholds, weights |-> DefaultWeights]

\* The result of a method that returns None.
NoMlResult == [op |-> "none", error |-> "", label |-> "",
               confidence |-> Rat(0, 1), threat_type |-> "", severity |-> ""]

\* A dict from names to numbers: the set of its keys and the value of each
\* key (the value recorded for an absent key is a filler).
NumDict(ks, val) ==
    [keys |-> ks,
     val |-> [f \in FeatureNames \cup {"bogus"} |->
                 IF f \in ks THEN val[f] ELSE Rat(0, 1)]]

\* normalized_features[feature] of predict (ml_model.py:96-105), for
\* thresholds that are not zero
Normalized(model, features, feature) ==
    IF feature \in features.keys
    THEN IF feature = "port_number"
         THEN RatSub(Rat(1, 1),
                     RatMin(Rat(1, 1), RatDiv(features.val[feature],
                                              model.thresholds[feature])))
         ELSE RatMin(Rat(1, 1), RatDiv(features.val[feature],
                                       model.thresholds[feature]))
    ELSE Rat(0, 1)

\* score after the first k features of the loop of ml_model.py:108-110
RECURSIVE Score(_, _, _)
Score(model, features, k) ==
    IF k = 0 THEN Rat(0, 1)
    ELSE RatAdd(Score(model, features, k - 1),
                RatMul(Normalized(model, features, Features[k]),
                       model.weights[Features[k]]))

\* _determine_threat_type, on the function nf of normalized features
determine_threat_type(nf) ==
    IF RatLess(Rat(8, 10), nf["port_number"])
       /\ RatLess(Rat(7, 10), nf["packet_rate"])
    THEN "Port Scanning"
    ELSE IF RatLess(Rat(9, 10), nf["packet_rate"])
            /\ RatLess(Rat(8, 10), nf["bytes_transferred"])
    THEN "DDoS Attack"
    ELSE IF RatLess(Rat(8, 10), nf["connection_duration"])
            /\ RatLess(nf["port_number"], Rat(3, 10))
    THEN "Brute Force Attempt"
    ELSE IF RatLess(Rat(7, 10), nf["bytes_transferred"])
            /\ RatLess(nf["connection_duration"], Rat(3, 10))
    THEN "Data Exfiltration"
    ELSE IF RatLess(Rat(8, 10), nf["protocol_type"])
            /\ RatLess(Rat(7, 10), nf["flag_count"])
    THEN "Man-in-the-Middle"
    ELSE "Unknown Threat"

\* _determine_severity
determine_severity(score) ==
    IF RatLess(Rat(9, 10), score) THEN "critical"
    ELSE IF RatLess(Rat(75, 100), score) THEN "high"
    ELSE IF RatLess(Rat(6, 10), score) THEN "medium"
    ELSE "low"

\* What predict(features) returns for the model: the division by a zero
\* threshold of a feature the input carries raises ZeroDivisionError.
PredictResult(model, features) ==
    IF \E f \in features.keys \cap FeatureNames : model.thresholds[f].n = 0
    THEN [NoMlResult EXCEPT !.op = "predict", !.error = "ZeroDivisionError"]
    ELSE LET nf == [f \in FeatureNames |-> Normalized(model, features, f)]
             score == Score(model, features, Len(Features))
             is_threat == RatLess(Rat(6, 10), score)
         IN  [op |-> "predict", error |-> "",
              label |-> IF is_threat THEN "threat" ELSE "normal",
              confidence |-> score,
              threat_type |-> IF is_threat THEN determine_threat_type(nf)
                              ELSE "",
              severity |-> determine_severity(score)]

\* default_model.predict(features)
predict(features) ==
    /\ ml_result' = PredictResult(default_model, features)
    /\ UNCHANGED <<default_model, ncalls>>
    /\ UNCHANGED <<appvars, pollvars>>

\* default_model.update_thresholds(new_thresholds)
update_thresholds(new_thresholds) ==
    /\ default_model' =
         [default_model EXCEPT !.thresholds =
             [f \in FeatureNames |->
                 IF f \in new_thresholds.keys THEN new_thresholds.val[f]
                 ELSE @[f]]]
    /\ ml_result' = [NoMlResult EXCEPT !.op = "update_thresholds"]
    /\ ncalls' = ncalls + 1
    /\ UNCHANGED <<appvars, pollvars>>

\* sum(self.weights.values())
RECURSIVE WeightSum(_, _)
WeightSum(weights, k) ==
    IF k = 0 THEN Rat(0, 1)
    ELSE RatAdd(WeightSum(weights, k - 1), weights[Features[k]])

\* default_model.update_weights(new_weights): the given weights of known
\* features are stored, then every weight is divided by the sum of all.  A
\* sum of zero raises ZeroDivisionError at the first division, which leaves
\* the table as stored.
update_weights(new_weights) ==
    LET merged == [f \in FeatureNames |->
                      IF f \in new_weights.keys THEN new_weights.val[f]
                      ELSE default_model.weights[f]]
        weight_sum == WeightSum(merged, Len(Features))
    IN  /\ IF weight_sum.n = 0
           THEN /\ default_model' = [default_model EXCEPT !.weights = merged]
                /\ ml_result' = [NoMlResult EXCEPT !.op = "update_weights",
                                    !.error = "ZeroDivisionError"]
           ELSE /\ default_model' =
                     [default_model EXCEPT !.weights =
                         [f \in FeatureNames |-> RatDiv(merged[f], weight_sum)]]
                /\ ml_result' = [NoMlResult EXCEPT !.op = "update_weights"]
        /\ ncalls' = ncalls + 1
        /\ UNCHANGED <<appvars, pollvars>>

-----------------------------------------------------------------------------
(* Initial state: the module-level objects of app.py and ml_model.py after *)
(* import                                                                  *)

\* The state of one WebSocket and of the endpoint coroutine that serves it:
\*   pc          where the endpoint is: "new" (not yet accepted), "initial"
\*               (awaiting the send of the initial message), "recv"
\*               (awaiting receive_text), "pong" (awaiting the send of a
\*               pong), "closed" (returned)
\*   ch          the channel it is registered on
\*   alive       whether the peer is still there
\*   snapshot    the alerts of the initial message built for it
\*   regCount    the number of alerts in the live list when it registered
\*   initials    the number of initial messages delivered to it
\*   pushed      the ingested alerts pushed to it, in delivery order
\*   failedSends the number of sends to it that raised
\*   stale       whether the disconnect the endpoint called before it
\*               returned found the connection already off the registry
\* An endpoint that has returned keeps no other record of its connection.
NewWs == [pc |-> "new", ch |-> "none", alive |-> TRUE, snapshot |-> <<>>,
          regCount |-> 0, initials |-> 0, pushed |-> <<>>, failedSends |-> 0,
          stale |-> FALSE]

ClosedWs == [NewWs EXCEPT !.pc = "closed", !.alive = FALSE]

NoResp == [req |-> 0, op |-> "none", code |-> 0]

NoBroadcast == [req |-> 0, ch |-> "none", started |-> {}, attempted |-> {},
                failed |-> {}, outcome |-> "none", result |-> 0]

\* The polling loops: the monitoring thread of the API (api.py:117-118,
\* started when the module is imported), the monitoring task of the API
\* (api.py:169-171, created on the event loop at startup) and the main loop
\* of the agent (windows10_monitor.py:578).
LoopNames == {"run_monitor_thread", "monitor_system_task", "monitor_loop"}

NewLoops ==
    [l \in LoopNames |->
        [pc |-> IF l = "run_monitor_thread" THEN "start" ELSE "tick",
         ticks |-> 0, errors |-> 0]]

\* resp and lastBroadcast are outputs: they show what the last step
\* answered or returned and are blank after a step that answers nothing.
NoOutput == resp' = NoResp /\ lastBroadcast' = NoBroadcast

\* Everything but the WebSockets the environment will open.
InitObjects ==
    /\ alertObjs = <<>>
    /\ alerts = <<>>
    /\ alert_history = <<>>
    /\ network_data = [inbound_traffic |-> <<>>, outbound_traffic |-> <<>>,
                       packet_rate |-> <<>>, active_connections |-> <<>>,
                       warnings |-> <<>>]
    /\ manager = NewManager
    /\ network_manager = NewManager
    /\ tasks = {}
    /\ nreq = 0
    /\ resp = NoResp
    /\ lastBroadcast = NoBroadcast
    /\ default_model = NewModel
    /\ ml_result = NoMlResult
    /\ ncalls = 0
    /\ api_alerts = <<>>
    /\ loops = NewLoops

Init == InitObjects /\ ws = [w \in 1..MaxWs |-> NewWs]

-----------------------------------------------------------------------------
(* broadcast(): ConnectionManager.broadcast and                            *)
(* NetworkConnectionManager.broadcast have the same body.                  *)

\* The status an HTTP handler answers with once its broadcast helper
\* (broadcast_alert, broadcast_network_data) has returned: both helpers
\* catch every exception of broadcast(), so the handler returns normally.
HandlerFailedCode == 500

HandlerDoneCode == 200

\* The run of broadcast() from a point where it is about to take the next
\* item of the iteration, for the suspended handler old (or a new handler,
\* then old = t), with t the handler's updated record and m the registry
\* of its channel:
\*   - an item: the send to that connection is awaited (a suspension);
\*     the record notes in "late" whether a send to that connection has
\*     already failed;
\*   - the end: the clean-up loop runs, broadcast returns, the handler
\*     answers;
\*   - a RuntimeError of the iterator: it leaves broadcast() before the
\*     clean-up loop and is caught by the helper.
BroadcastContinue(old, t, m) ==
    LET r == IterNext(m.active_connections, t.it)
    IN  CASE r.kind = "item" ->
               /\ SetMgr(t.ch, m)
               /\ tasks' = (tasks \ {old}) \cup
                      {[t EXCEPT !.it = r.it, !.cur = r.key,
                                 !.attempted = @ \cup {r.key},
                                 !.late = ws[r.key].failedSends > 0]}
               /\ NoOutput
          [] r.kind = "stop" ->
               LET m2 == DisconnectAll(t.ch, m, t.failed)
               IN  /\ SetMgr(t.ch, m2)
                   /\ tasks' = tasks \ {old}
                   /\ lastBroadcast' =
                        [req |-> t.req, ch |-> t.ch, started |-> t.started,
                         attempted |-> t.attempted, failed |-> Range(t.failed),
                         outcome |-> "returned",
                         result |-> BroadcastReturn(m2, t.failed)]
                   /\ resp' = [req |-> t.req, op |-> t.op,
                               code |-> HandlerDoneCode]
          [] r.kind = "error" ->
               /\ SetMgr(t.ch, m)
               /\ tasks' = tasks \ {old}
               /\ lastBroadcast' =
                    [req |-> t.req, ch |-> t.ch, started |-> t.started,
                     attempted |-> t.attempted, failed |-> Range(t.failed),
                     outcome |-> "RuntimeError", result |-> 0]
               /\ resp' = [req |-> t.req, op |-> t.op,
                           code |-> HandlerDoneCode]

\* The handlers that ingest an alert and broadcast it.
IngestOps == {"receive_alert", "test_alert"}

\* The start of broadcast() in the handler of request req (app.py:83-86).
BroadcastStartPerRecipient(req, op, ch) ==
    LET m == [Mgr(ch) EXCEPT !.stats.messages_sent =
                                @ + Used(Mgr(ch).active_connections)]
        t == [req |-> req, op |-> op, ch |-> ch,
              ref |-> IF op \in IngestOps THEN Len(alertObjs) + 1 ELSE 0,
              it |-> IterNew(m.active_connections), cur |-> 0, late |-> FALSE,
              failed |-> <<>>, started |-> ActiveIds(m), attempted |-> {},
              reg |-> m.active_connections]
    IN  BroadcastContinue(t, t, m)

\* ref is the alert the message carries when the handler has just ingested
\* one (the alert object it is about to create), 0 for other messages; reg
\* is the entry table of the registry as the call found it.
BroadcastStart(req, op, ch) ==
    LET m == [Mgr(ch) EXCEPT !.stats.messages_sent = @ + 1]
        t == [req |-> req, op |-> op, ch |-> ch,
              ref |-> IF op \in IngestOps THEN Len(alertObjs) + 1 ELSE 0,
              it |-> IterNew(m.active_connections), cur |-> 0, late |-> FALSE,
              failed |-> <<>>, started |-> ActiveIds(m), attempted |-> {},
              reg |-> m.active_connections]
    IN  BroadcastContinue(t, t, m)

\* The awaited send_text of a suspended broadcast completes: it raises when
\* the peer is gone (app.py:87-92), then the loop goes on.
BroadcastStep(t) ==
    /\ t \in tasks
    /\ LET ok == ws[t.cur].alive
           m  == IF ok THEN Mgr(t.ch)
                 ELSE [Mgr(t.ch) EXCEPT !.stats.errors = @ + 1]
           t1 == IF ok THEN t ELSE [t EXCEPT !.failed = Append(@, t.cur)]
       IN  /\ BroadcastContinue(t, t1, m)
           /\ ws' = IF ws[t.cur].pc = "closed" THEN ws
                    ELSE IF ~ok
                    THEN [ws EXCEPT ![t.cur].failedSends = @ + 1]
                    ELSE IF t.ref # 0
                    THEN [ws EXCEPT ![t.cur].pushed = Append(@, t.ref)]
                    ELSE ws
    /\ UNCHANGED <<alertObjs, alerts, alert_history, network_data, nreq>>
    /\ UNCHANGED <<mlvars, pollvars>>

-----------------------------------------------------------------------------
(* HTTP handlers *)

\* The status of the HTTPException that leaves receive_alert for a payload
\* without the required fields: the HTTPException(400) of app.py:366 is
\* raised inside the try of app.py:360, caught by "except Exception" at
\* app.py:380 and replaced by HTTPException(500) at app.py:382.
receive_alert_reject_code == 500

\* POST /api/alert.  nreq numbers the requests that are accepted; a rejected
\* request leaves nothing behind but its response.
receive_alert(alert) ==
    /\ IF ~HasRequiredFields(alert)
       THEN /\ resp' = [req |-> 0, op |-> "receive_alert",
                        code |-> receive_alert_reject_code]
            /\ lastBroadcast' = NoBroadcast
            /\ UNCHANGED <<alertObjs, alerts, alert_history, manager,
                           network_manager, tasks, nreq>>
       ELSE /\ nreq' = nreq + 1
            /\ alertObjs' = Append(alertObjs, alert)
            /\ alerts' = <<Len(alertObjs) + 1>> \o alerts
            /\ alert_history' = DequeAppend(alert_history, Len(alertObjs) + 1,
                                            HistoryMaxLen)
            /\ BroadcastStart(nreq + 1, "receive_alert", "alerts")
    /\ UNCHANGED <<network_data, ws>>
    /\ UNCHANGED <<mlvars, pollvars>>

\* The alert that GET /test-alert creates: a fresh uuid4 id (no other
\* alert has it), severity medium, status open, the time of the call.
TestAlert == AlertDict(AllFields, 100 + Len(alertObjs), "medium", 10, "open")

\* GET /test-alert
test_alert ==
    /\ nreq' = nreq + 1
    /\ alertObjs' = Append(alertObjs, TestAlert)
    /\ alerts' = <<Len(alertObjs) + 1>> \o alerts
    /\ alert_history' = DequeAppend(alert_history, Len(alertObjs) + 1,
                                    HistoryMaxLen)
    /\ BroadcastStart(nreq + 1, "test_alert", "alerts")
    /\ UNCHANGED <<network_data, ws>>
    /\ UNCHANGED <<mlvars, pollvars>>

\* The check of the new status (app.py:473).
ValidStatusAny(status) == TRUE

ValidStatusNoReopen(status) == status \in STATUS_OPTIONS \ {"open"}

ValidStatus(status) == status \in STATUS_OPTIONS

\* PUT /alerts/{alert_id}/status
update_alert_status(alert_id, status) ==
    LET hits == {i \in DOMAIN alerts : LiveAlerts[i].id = alert_id}
    IN  /\ IF hits = {}
           THEN /\ resp' = [req |-> 0, op |-> "update_alert_status",
                            code |-> 404]
                /\ lastBroadcast' = NoBroadcast
                /\ UNCHANGED <<alertObjs, manager, network_manager, tasks, nreq>>
           ELSE LET ref == alerts[CHOOSE i \in hits : \A j \in hits : i <= j]
                IN  IF ~ValidStatus(status)
                    THEN /\ resp' = [req |-> 0,
                                     op |-> "update_alert_status",
                                     code |-> 400]
                         /\ lastBroadcast' = NoBroadcast
                         /\ UNCHANGED <<alertObjs, manager, network_manager,
                                        tasks, nreq>>
                    ELSE /\ nreq' = nreq + 1
                         /\ alertObjs' =
                              [alertObjs EXCEPT
                                 ![ref].status = status,
                                 ![ref].keys = @ \cup {"status"}]
                         /\ BroadcastStart(nreq + 1, "update_alert_status",
                                           "alerts")
        /\ UNCHANGED <<alerts, alert_history, network_data, ws>>
        /\ UNCHANGED <<mlvars, pollvars>>

\* POST /api/network-data.  A field of the payload is 0 when it is empty or
\* None (falsy) and a positive number otherwise.
receive_network_data(data) ==
    /\ nreq' = nreq + 1
    /\ network_data' =
         [inbound_traffic |->
             IF data.inbound_traffic # 0
             THEN DequeAppend(network_data.inbound_traffic,
                              data.inbound_traffic, NetworkMaxLen)
             ELSE network_data.inbound_traffic,
          outbound_traffic |->
             IF data.outbound_traffic # 0
             THEN DequeAppend(network_data.outbound_traffic,
                              data.outbound_traffic, NetworkMaxLen)
             ELSE network_data.outbound_traffic,
          packet_rate |->
             IF data.packet_rate # 0
             THEN DequeAppend(network_data.packet_rate,
                              data.packet_rate, NetworkMaxLen)
             ELSE network_data.packet_rate,
          active_connections |->
             IF data.active_connections # 0
             THEN DequeAppend(network_data.active_connections,
                              data.active_connections, NetworkMaxLen)
             ELSE network_data.active_connections,
          warnings |-> network_data.warnings]
    /\ BroadcastStart(nreq + 1, "receive_network_data", "network")
    /\ UNCHANGED <<alertObjs, alerts, alert_history, ws>>
    /\ UNCHANGED <<mlvars, pollvars>>

-----------------------------------------------------------------------------
(* WebSocket endpoints: websocket_endpoint (/ws) and                       *)
(* network_websocket_endpoint (/ws/network)                                *)

\* alerts[:50], the content of the initial message of /ws (app.py:539)
InitialAlertsAll == alerts

InitialAlerts == Slice(alerts, 0, 50)

\* The endpoint is called and the awaited accept() completes: with success
\* the connection is registered, the initial message is built and its send
\* is awaited (connect() returns to the endpoint without suspending); with
\* a failure connect() returns None and the endpoint returns.
\* WebSockets are numbered in the order in which their accept() completes.
WsConnect(w, ch, ok) ==
    /\ ws[w].pc = "new"
    /\ \A v \in 1..(w - 1) : ws[v].pc # "new"
    /\ IF ok
       THEN /\ SetMgr(ch, Register(Mgr(ch), w))
            /\ ws' = [ws EXCEPT ![w].pc = "initial", ![w].ch = ch,
                                ![w].snapshot = IF ch = "alerts"
                                                THEN InitialAlerts ELSE <<>>,
                                ![w].regCount = IF ch = "alerts"
                                                THEN Len(alerts) ELSE 0]
       ELSE /\ SetMgr(ch, ConnectFailed(Mgr(ch)))
            /\ ws' = [ws EXCEPT ![w] = ClosedWs]
    /\ NoOutput
    /\ UNCHANGED <<alertObjs, alerts, alert_history, network_data, tasks, nreq>>
    /\ UNCHANGED <<mlvars, pollvars>>

\* The send of the initial message completes: the endpoint awaits the first
\* client message, or the send raised and the endpoint disconnects.
WsInitialSent(w) ==
    /\ ws[w].pc = "initial"
    /\ IF ws[w].alive
       THEN /\ ws' = [ws EXCEPT ![w].pc = "recv", ![w].initials = @ + 1]
            /\ UNCHANGED <<manager, network_manager>>
       ELSE /\ ws' = [ws EXCEPT ![w] =
                         [ClosedWs EXCEPT !.stale =
                             w \notin ActiveIds(Mgr(ws[w].ch))]]
            /\ SetMgr(ws[w].ch, Disconnect(ws[w].ch, Mgr(ws[w].ch), w))
    /\ NoOutput
    /\ UNCHANGED <<alertObjs, alerts, alert_history, network_data, tasks, nreq>>
    /\ UNCHANGED <<mlvars, pollvars>>

\* The text messages of a client: a JSON object of type ping, any other
\* JSON text, and text that json.loads rejects.
ClientMessages == {"ping", "other", "unparseable"}

\* receive_text() returns a client message: a ping is answered with a pong
\* (the send is awaited); any other text is ignored, and so is the error
\* of json.loads or of msg.get (bare except, app.py:555, 596).
WsReceive(w, type) ==
    /\ ws[w].pc = "recv"
    /\ ws[w].alive
    /\ ws' = [ws EXCEPT ![w].pc = IF type = "ping" THEN "pong" ELSE "recv"]
    /\ NoOutput
    /\ UNCHANGED <<alertObjs, alerts, alert_history, network_data, manager,
                   network_manager, tasks, nreq>>
    /\ UNCHANGED <<mlvars, pollvars>>

WsPongSentEvicting(w) ==
    /\ ws[w].pc = "pong"
    /\ IF ws[w].alive
       THEN /\ ws' = [ws EXCEPT ![w].pc = "recv"]
            /\ UNCHANGED <<manager, network_manager>>
       ELSE /\ ws' = [ws EXCEPT ![w] = ClosedWs]
            /\ SetMgr(ws[w].ch, Disconnect(ws[w].ch, Mgr(ws[w].ch), w))
    /\ NoOutput
    /\ UNCHANGED <<alertObjs, alerts, alert_history, network_data, tasks, nreq>>
    /\ UNCHANGED <<mlvars, pollvars>>

\* The send of the pong completes.  A failure of it is swallowed by the
\* bare except of app.py:555; the loop awaits the next message either way.
WsPongSent(w) ==
    /\ ws[w].pc = "pong"
    /\ ws' = [ws EXCEPT ![w].pc = "recv",
                        ![w].failedSends = IF ws[w].alive THEN @ ELSE @ + 1]
    /\ NoOutput
    /\ UNCHANGED <<alertObjs, alerts, alert_history, network_data, manager,
                   network_manager, tasks, nreq>>
    /\ UNCHANGED <<mlvars, pollvars>>

\* receive_text() raises because the peer is gone: the endpoint disconnects
\* the client and returns (app.py:558-563).
WsReceiveDisconnect(w) ==
    /\ ws[w].pc = "recv"
    /\ ~ws[w].alive
    /\ ws' = [ws EXCEPT ![w] =
                 [ClosedWs EXCEPT !.stale = w \notin ActiveIds(Mgr(ws[w].ch))]]
    /\ SetMgr(ws[w].ch, Disconnect(ws[w].ch, Mgr(ws[w].ch), w))
    /\ NoOutput
    /\ UNCHANGED <<alertObjs, alerts, alert_history, network_data, tasks, nreq>>
    /\ UNCHANGED <<mlvars, pollvars>>

\* The peer of an open WebSocket goes away (environment): from now on a
\* send to it raises and receive_text() raises WebSocketDisconnect.
ClientDrop(w) ==
    /\ ws[w].pc \in {"initial", "recv", "pong"}
    /\ ws[w].alive
    /\ ws' = [ws EXCEPT ![w].alive = FALSE]
    /\ NoOutput
    /\ UNCHANGED <<alertObjs, alerts, alert_history, network_data, manager,
                   network_manager, tasks, nreq>>
    /\ UNCHANGED <<mlvars, pollvars>>

-----------------------------------------------------------------------------
(* Inputs *)

FullAlert(id, severity, status) == AlertDict(AllFields, id, severity, 10, status)

\* Payloads of POST /api/alert in Spec: one complete alert.
Payloads == {FullAlert(1, "critical", "open")}

\* Payloads of POST /api/alert in SpecStore: complete alerts, alerts without
\* a status, alerts with values outside the enumerations, and payloads that
\* lack required fields.
StorePayloads ==
    {FullAlert(id, sev, "open") : id \in {1, 2},
                                  sev \in {"low", "medium", "high", "critical"}}
    \cup {FullAlert(2, "high", "resolved")}
    \cup {AlertDict(RequiredFields, id, "critical", 10, "") : id \in {1, 2}}
    \cup {FullAlert(1, "bogus", "open"), FullAlert(1, "high", "archived")}
    \cup {AlertDict(AllFields \ {k}, 1, "high", 10, "open") : k \in RequiredFields}
    \cup {AlertDict({}, 0, "", 0, ""), AlertDict({"id"}, 2, "", 0, "")}

AlertIds == {1, 2}

\* Updates requested in Spec.
UpdateIds == {1}
UpdateStatuses == {"resolved"}

StatusInputs == STATUS_OPTIONS \cup {"archived"}

\* Payloads of POST /api/network-data.
NetworkPayloads ==
    {[inbound_traffic |-> 1, outbound_traffic |-> 1, packet_rate |-> 1,
      active_connections |-> 0]}

\* The n-th alert of SpecEvict: one complete open alert per request, with a
\* fresh id and a timestamp in one of three consecutive hours.
EvictPayload(n) == AlertDict(AllFields, n, "low", 10 + (n % 3), "open")

\* The dict that maps the fields of the record r to its (integer) values.
Vec(r) == NumDict(DOMAIN r, [f \in DOMAIN r |-> Rat(r[f], 1)])

\* The feature vector of the port scanning scenario.
ScanInput == Vec([packet_rate |-> 150, bytes_transferred |-> 600000,
                  port_number |-> 20])

\* A vector that carries every feature at or beyond its threshold.
SaturatedInput ==
    Vec([packet_count |-> 2000, connection_duration |-> 600,
         bytes_transferred |-> 1000000, packet_rate |-> 200,
         port_number |-> 0, protocol_type |-> 2, flag_count |-> 10])

\* Feature vectors given to predict: subsets of the seven features, values
\* below, at and beyond the thresholds, zero and negative values, and a
\* name that is not a feature.
FeatureInputs ==
    {ScanInput, SaturatedInput, Vec([packet_rate |-> 150, port_number |-> 20]),
     NumDict({}, <<>>),
     Vec([packet_rate |-> 50]),
     Vec([packet_rate |-> 100, bogus |-> 7]),
     Vec([port_number |-> 2048]),
     Vec([port_number |-> 0, packet_rate |-> 80, packet_count |-> 500]),
     Vec([connection_duration |-> 300, port_number |-> 1024]),
     Vec([bytes_transferred |-> 400000, connection_duration |-> 30]),
     Vec([protocol_type |-> 1, flag_count |-> 4]),
     Vec([packet_rate |-> -100]),
     Vec([port_number |-> -1024]),
     Vec([packet_count |-> 0, flag_count |-> 0])}

\* Maps given to update_weights: the map of the documented round trip, maps
\* with a zero weight, a map with a name that is not a feature.
WeightInputs ==
    {Vec([bytes_transferred |-> 2]),
     Vec([bogus |-> 5]),
     Vec([packet_count |-> 1, bogus |-> 3]),
     Vec([packet_rate |-> 0]),
     Vec([flag_count |-> 0]),
     Vec([packet_count |-> 0, connection_duration |-> 0,
          bytes_transferred |-> 0, packet_rate |-> 0, port_number |-> 0,
          protocol_type |-> 0])}

\* Maps given to update_thresholds.
ThresholdInputs ==
    {Vec([packet_rate |-> 50]), Vec([port_number |-> 0, bogus |-> 1])}

-----------------------------------------------------------------------------
(* Specifications *)

\* The requests that count against the bound on accepted requests: alerts
\* with the four required fields, updates of a stored id to a status of
\* STATUS_OPTIONS.
AcceptsAlert(p) == RequiredFields \subseteq p.keys
AcceptsUpdate(id, st) ==
    /\ \E i \in DOMAIN alerts : LiveAlerts[i].id = id
    /\ st \in STATUS_OPTIONS

\* The WebSockets whose accept() has completed.
Connected == Cardinality({w \in DOMAIN ws : ws[w].pc # "new"})

\* The bound on the events of a run of Spec.
EventGuard == nreq + Connected < MaxEvents

\* The bound on accepted requests; a rejected request is always possible.
HttpGuard == nreq < MaxReqs /\ EventGuard
StoreGuard == nreq < MaxStoreReqs

\* The whole backend: HTTP requests with well-formed input, WebSocket
\* endpoints and clients.
Next ==
    \/ \E p \in Payloads : (AcceptsAlert(p) => HttpGuard) /\ receive_alert(p)
    \/ \E id \in UpdateIds, st \in UpdateStatuses :
          (AcceptsUpdate(id, st) => HttpGuard) /\ update_alert_status(id, st)
    \/ HttpGuard /\ test_alert
    \/ \E d \in NetworkPayloads : HttpGuard /\ receive_network_data(d)
    \/ \E t \in tasks : BroadcastStep(t)
    \/ \E w \in 1..MaxWs, ch \in Channels, ok \in BOOLEAN :
          EventGuard /\ WsConnect(w, ch, ok)
    \/ \E w \in 1..MaxWs : WsInitialSent(w)
    \/ \E w \in 1..MaxWs, type \in ClientMessages : WsReceive(w, type)
    \/ \E w \in 1..MaxWs : WsPongSent(w)
    \/ \E w \in 1..MaxWs : WsReceiveDisconnect(w)
    \/ \E w \in 1..MaxWs : ClientDrop(w)

Spec == Init /\ [][Next]_vars

\* The alert store alone: requests of producers and operators with any
\* input, while no WebSocket client is connected (a broadcast then finds an
\* empty registry and returns without suspending).
NextStore ==
    \/ \E p \in StorePayloads : (AcceptsAlert(p) => StoreGuard) /\ receive_alert(p)
    \/ StoreGuard /\ test_alert
    \/ \E id \in AlertIds, st \in StatusInputs :
          (AcceptsUpdate(id, st) => StoreGuard) /\ update_alert_status(id, st)

SpecStore == Init /\ [][NextStore]_vars

\* A producer that fills the history past its capacity.
NextEvict == nreq < MaxEvictReqs /\ receive_alert(EvictPayload(nreq + 1))

SpecEvict == Init /\ [][NextEvict]_vars

\* Two producers that fill the history past its capacity, one through
\* POST /api/alert and one through GET /test-alert: the first requests come
\* in any order, the later ones take turns.
NextHistory ==
    \/ /\ nreq < MaxEvictReqs
       /\ nreq < MaxMixedReqs \/ nreq % 2 = 0
       /\ receive_alert(EvictPayload(nreq + 1))
    \/ /\ nreq < MaxEvictReqs
       /\ nreq < MaxMixedReqs \/ nreq % 2 = 1
       /\ test_alert

SpecHistory == Init /\ [][NextHistory]_vars

\* The alert channel with dashboards that come and go while one alert is
\* ingested and broadcast.
InitDeliver == InitObjects /\ ws = [w \in 1..MaxDeliverWs |-> NewWs]

NextDeliver ==
    \/ \E p \in Payloads : nreq < MaxDeliverReqs /\ receive_alert(p)
    \/ \E t \in tasks : BroadcastStep(t)
    \/ \E w \in 1..MaxDeliverWs : WsConnect(w, "alerts", TRUE)
    \/ \E w \in 1..MaxDeliverWs : WsInitialSent(w)
    \/ \E w \in 1..MaxDeliverWs : WsReceiveDisconnect(w)
    \/ \E w \in 1..MaxDeliverWs : ClientDrop(w)

SpecDeliver == InitDeliver /\ [][NextDeliver]_vars

\* The alert channel with dashboards that come and go while two alerts are
\* ingested and broadcast.
NextOrder ==
    \/ \E p \in Payloads : nreq < MaxOrderReqs /\ receive_alert(p)
    \/ \E t \in tasks : BroadcastStep(t)
    \/ \E w \in 1..MaxDeliverWs : WsConnect(w, "alerts", TRUE)
    \/ \E w \in 1..MaxDeliverWs : WsInitialSent(w)
    \/ \E w \in 1..MaxDeliverWs : WsReceiveDisconnect(w)
    \/ \E w \in 1..MaxDeliverWs : ClientDrop(w)

SpecOrder == InitDeliver /\ [][NextOrder]_vars

\* A producer that sends one alert after the other, each after the answer
\* to the one before (as src/send_test_alerts.py does), while one dashboard
\* at a time connects to /ws, goes away and reconnects.
NextSnapshot ==
    \/ /\ nreq < MaxSnapshotReqs
       /\ tasks = {}
       /\ receive_alert(EvictPayload(nreq + 1))
    \/ \E t \in tasks : BroadcastStep(t)
    \/ \E w \in 1..MaxWs :
          /\ \A v \in 1..MaxWs : ws[v].pc \in {"new", "closed"}
          /\ WsConnect(w, "alerts", TRUE)
    \/ \E w \in 1..MaxWs : WsInitialSent(w)
    \/ \E w \in 1..MaxWs : WsReceiveDisconnect(w)
    \/ \E w \in 1..MaxWs : ClientDrop(w)

SpecSnapshot == Init /\ [][NextSnapshot]_vars

\* The detection model alone: a caller that updates the weights and the
\* thresholds and asks for predictions.
ModelGuard == ncalls < MaxModelCalls

NextModel ==
    \/ \E m \in WeightInputs : ModelGuard /\ update_weights(m)
    \/ \E t \in ThresholdInputs : ModelGuard /\ update_thresholds(t)
    \/ \E f \in FeatureInputs : predict(f)

SpecModel == Init /\ [][NextModel]_vars

-----------------------------------------------------------------------------
(* The polling loops of src/api.py and src/windows10_monitor.py.           *)
(*                                                                         *)
(* run_monitor_thread runs on a thread of its own and can be preempted     *)
(* between any two statements; monitor_system_task is a task of the event  *)
(* loop of the API; monitor_loop is the main thread of the agent process.  *)
(* What the telemetry sources and the detector return, and whether they    *)
(* raise, is the choice of the environment.  loops[l].errors counts the    *)
(* errors the loop has logged, loops[l].ticks the sleeps it has finished.  *)

PollOutcomes == {"quiet", "threat", "raises"}

\* api.py:51-55  the thread sets monitor.running and establishes the
\* baseline, outside the try statement: an error here ends the thread
\* unlogged.
run_monitor_thread_start(ok) ==
    /\ loops["run_monitor_thread"].pc = "start"
    /\ loops' = [loops EXCEPT !["run_monitor_thread"].pc =
                    IF ok THEN "tick" ELSE "ended"]
    /\ UNCHANGED <<api_alerts, appvars, mlvars>>

\* api.py:57-68, 76-82  one pass of the body of the while loop, up to the
\* append of the alert.  The try statement encloses the whole loop, so an
\* error of collect_system_metrics, detect_threats or create_alert leaves
\* the loop: it is printed (api.py:80) and monitor.running is reset.
run_monitor_thread_iteration(outcome) ==
    /\ loops["run_monitor_thread"].pc = "tick"
    /\ CASE outcome = "quiet" ->
              /\ loops' = [loops EXCEPT !["run_monitor_thread"].pc = "sleep"]
              /\ UNCHANGED api_alerts
         [] outcome = "threat" ->
              /\ api_alerts' = Append(api_alerts, Len(api_alerts) + 1)
              /\ loops' = [loops EXCEPT !["run_monitor_thread"].pc = "notify"]
         [] outcome = "raises" ->
              /\ loops' = [loops EXCEPT
                    !["run_monitor_thread"].pc = "ended",
                    !["run_monitor_thread"].errors = @ + 1]
              /\ UNCHANGED api_alerts
    /\ UNCHANGED <<appvars, mlvars>>

\* api.py:71  asyncio.run_coroutine_threadsafe(notify_clients(alert),
\* asyncio.get_event_loop()): the arguments are evaluated first, and
\* get_event_loop() called on a thread that has no event loop raises
\* RuntimeError.  Nothing is scheduled; the error leaves the while loop
\* (api.py:79-82).
run_monitor_thread_notify ==
    /\ loops["run_monitor_thread"].pc = "notify"
    /\ loops' = [loops EXCEPT
          !["run_monitor_thread"].pc = "ended",
          !["run_monitor_thread"].errors = @ + 1]
    /\ UNCHANGED <<api_alerts, appvars, mlvars>>

\* api.py:77, windows10_monitor.py:590, 593, api.py:237, 242  the sleep of
\* the fixed interval ends and the loop is at its next tick.
LoopSleep(l) ==
    /\ loops[l].pc = "sleep"
    /\ loops' = [loops EXCEPT ![l].pc = "tick", ![l].ticks = @ + 1]
    /\ UNCHANGED <<api_alerts, appvars, mlvars>>

\* api.py:173-242  one pass of the body of monitor_system_task, up to its
\* sleep.  The try statement is inside the loop: an error is printed and
\* the task sleeps (api.py:239-242).
monitor_system_task_iteration(outcome) ==
    /\ loops["monitor_system_task"].pc = "tick"
    /\ loops' = [loops EXCEPT
          !["monitor_system_task"].pc = "sleep",
          !["monitor_system_task"].errors =
              IF outcome = "raises" THEN @ + 1 ELSE @]
    /\ UNCHANGED <<api_alerts, appvars, mlvars>>

\* windows10_monitor.py:578-593  one pass of the body of monitor_loop, up
\* to its sleep.  The try statement is inside the loop: an error is logged
\* and the loop sleeps (windows10_monitor.py:591-593).
monitor_loop_iteration(outcome) ==
    /\ loops["monitor_loop"].pc = "tick"
    /\ loops' = [loops EXCEPT
          !["monitor_loop"].pc = "sleep",
          !["monitor_loop"].errors =
              IF outcome = "raises" THEN @ + 1 ELSE @]
    /\ UNCHANGED <<api_alerts, appvars, mlvars>>

\* The three loops side by side.
TickGuard(l) == loops[l].ticks < MaxTicks

NextPoll ==
    \/ \E ok \in BOOLEAN : run_monitor_thread_start(ok)
    \/ \E o \in PollOutcomes :
          TickGuard("run_monitor_thread") /\ run_monitor_thread_iteration(o)
    \/ run_monitor_thread_notify
    \/ \E o \in PollOutcomes :
          TickGuard("monitor_system_task") /\ monitor_system_task_iteration(o)
    \/ \E o \in PollOutcomes :
          TickGuard("monitor_loop") /\ monitor_loop_iteration(o)
    \/ \E l \in LoopNames : LoopSleep(l)

SpecPoll == Init /\ [][NextPoll]_vars

-----------------------------------------------------------------------------
(* The methods of ConnectionManager called directly.                       *)
(*                                                                         *)
(* The endpoints of app.py call connect() without a client id and never    *)
(* call send_to_client(); here a caller uses the whole interface of the    *)
(* class: connect() with a client id of its choice (an id that is not in   *)
(* use stands for a generated one as well), disconnect(), broadcast() and  *)
(* send_to_client().  ws[id] is the WebSocket stored under the key id.     *)

RegistryGuard == nreq < MaxRegistryCalls

\* ConnectionManager.connect(websocket, client_id) up to its return: the
\* awaited accept() succeeds or raises.  An id that is already a key of
\* active_connections is overwritten (app.py:55) and counted again
\* (app.py:57).  A connect that replaces the WebSocket of an id while a
\* send to that id is awaited is left out.
connect(client_id, ok) ==
    /\ \A t \in tasks : t.cur # client_id
    /\ nreq' = nreq + 1
    /\ IF ok
       THEN /\ manager' = Register(manager, client_id)
            /\ ws' = [ws EXCEPT ![client_id] =
                         [NewWs EXCEPT !.pc = "recv", !.ch = "alerts"]]
       ELSE /\ manager' = ConnectFailed(manager)
            /\ UNCHANGED ws
    /\ NoOutput
    /\ UNCHANGED <<alertObjs, alerts, alert_history, network_data,
                   network_manager, tasks>>
    /\ UNCHANGED <<mlvars, pollvars>>

\* ConnectionManager.disconnect(client_id)
disconnect(client_id) ==
    /\ nreq' = nreq + 1
    /\ manager' = CM_disconnect(manager, client_id)
    /\ NoOutput
    /\ UNCHANGED <<alertObjs, alerts, alert_history, network_data,
                   network_manager, ws, tasks>>
    /\ UNCHANGED <<mlvars, pollvars>>

\* ConnectionManager.broadcast(message) up to its first awaited send
broadcast ==
    /\ nreq' = nreq + 1
    /\ BroadcastStart(nreq + 1, "broadcast", "alerts")
    /\ UNCHANGED <<alertObjs, alerts, alert_history, network_data, ws>>
    /\ UNCHANGED <<mlvars, pollvars>>

\* ConnectionManager.send_to_client(client_id, message) up to the awaited
\* send (app.py:105-107); it returns False at once for an id that is not
\* registered (app.py:114).
send_to_client(client_id) ==
    /\ nreq' = nreq + 1
    /\ tasks' = IF client_id \in ActiveIds(manager)
                THEN tasks \cup
                       {[req |-> nreq + 1, op |-> "send_to_client",
                         ch |-> "alerts", ref |-> 0,
                         it |-> IterNew(<<>>), cur |-> client_id,
                         late |-> ws[client_id].failedSends > 0,
                         failed |-> <<>>, started |-> {client_id},
                         attempted |-> {client_id},
                         reg |-> manager.active_connections]}
                ELSE tasks
    /\ NoOutput
    /\ UNCHANGED <<alertObjs, alerts, alert_history, network_data, manager,
                   network_manager, ws>>
    /\ UNCHANGED <<mlvars, pollvars>>

\* The awaited send of send_to_client completes: it returns True, or the
\* send raised and the client is disconnected and the error counted
\* (app.py:109-113).
send_to_client_done(t) ==
    /\ t \in tasks
    /\ t.op = "send_to_client"
    /\ tasks' = tasks \ {t}
    /\ IF ws[t.cur].alive
       THEN UNCHANGED <<manager, ws>>
       ELSE /\ manager' = [CM_disconnect(manager, t.cur) EXCEPT
                              !.stats.errors = @ + 1]
            /\ ws' = [ws EXCEPT ![t.cur].failedSends = @ + 1]
    /\ NoOutput
    /\ UNCHANGED <<alertObjs, alerts, alert_history, network_data,
                   network_manager, nreq>>
    /\ UNCHANGED <<mlvars, pollvars>>

NextRegistry ==
    \/ \E id \in 1..MaxWs, ok \in BOOLEAN : RegistryGuard /\ connect(id, ok)
    \/ \E id \in 1..MaxWs : RegistryGuard /\ disconnect(id)
    \/ RegistryGuard /\ broadcast
    \/ \E id \in 1..MaxWs : RegistryGuard /\ send_to_client(id)
    \/ \E t \in tasks : send_to_client_done(t)
    \/ \E t \in tasks : t.op = "broadcast" /\ BroadcastStep(t)
    \/ \E w \in 1..MaxWs : ClientDrop(w)

SpecRegistry == Init /\ [][NextRegistry]_vars

-----------------------------------------------------------------------------
(* Properties *)

\* A payload of POST /api/alert that lacks a required field.
MissingRequired(p) == RequiredFields \ p.keys # {}

\* The ids of the alerts in the store.
StoredIds == {alertObjs[alerts[i]].id : i \in DOMAIN alerts}
             \cup {alertObjs[alert_history[i]].id : i \in DOMAIN alert_history}

\* C1: a broadcast over N active connections of which K sends fail returns
\* N - K, and none of the K failing connections is registered after the call.
C1_BroadcastReturnsRemaining ==
    lastBroadcast.outcome = "returned" =>
        /\ lastBroadcast.result =
              Cardinality(lastBroadcast.started) - Cardinality(lastBroadcast.failed)
        /\ lastBroadcast.failed \cap ActiveIds(Mgr(lastBroadcast.ch)) = {}

\* C2: a broadcast attempts a send to every connection that was active when
\* the call started, whatever other handlers do to the registry while a send
\* is awaited.  Stated for the connections that are still registered when the
\* broadcast ends: each of them has been sent to.
C2_BroadcastReachesAllStarted ==
    lastBroadcast.outcome # "none" =>
        \A c \in lastBroadcast.started :
            c \in ActiveIds(Mgr(lastBroadcast.ch)) => c \in lastBroadcast.attempted

\* C3: ingesting a payload that lacks a required field is rejected, leaves
\* the live list, the history and the alert objects as they were and starts
\* no broadcast; no stored alert lacks a required field.
C3_RejectedIngestChangesNothing ==
    [][\A p \in StorePayloads :
          (MissingRequired(p) /\ receive_alert(p)) =>
              /\ resp'.op = "receive_alert" /\ resp'.code >= 400
              /\ UNCHANGED <<alertObjs, alerts, alert_history>>
              /\ UNCHANGED <<manager, network_manager, tasks>>
              /\ lastBroadcast' = NoBroadcast
              /\ \A i \in DOMAIN alertObjs' :
                    RequiredFields \subseteq alertObjs'[i].keys]_vars

\* C3 witness: a payload without a required field has just been rejected
\* while alerts are stored.
C3_Witness ==
    /\ resp.op = "receive_alert" /\ resp.code >= 400
    /\ Len(alerts) = 2 /\ Len(alert_history) = 2

\* C4: POST /api/alert with a payload that lacks a required field is
\* answered with status 400.
C4_MissingFieldsAnswered400 ==
    [][\A p \in StorePayloads :
          (MissingRequired(p) /\ receive_alert(p)) => resp'.code = 400]_vars

\* The references of the alerts ingested last, at most HistoryMaxLen of
\* them, oldest first.
LastIngested ==
    LET n == Len(alertObjs)
        k == Min(n, HistoryMaxLen)
    IN  [i \in 1..k |-> (n - k) + i]

\* C5: the history never holds more than 1000 alerts; it holds the alerts
\* ingested last, so the 1001st ingestion evicts the oldest alert; and every
\* bucket of the 24-hour histogram counts alerts that are still in the
\* history only, never an evicted one.
C5_HistoryBoundedOldestEvicted ==
    /\ Len(alert_history) <= 1000
    /\ alert_history = LastIngested
    /\ \A i \in 0..23 :
          alerts_by_hour(34)[i].count =
              Cardinality({r \in Range(LastIngested) :
                  /\ 10 + i <= alertObjs[r].timestamp
                  /\ alertObjs[r].timestamp < 11 + i})

\* C5 witness: 1001 alerts were ingested, the history is full and the alert
\* ingested first is no longer in it.
C5_Witness ==
    /\ Len(alertObjs) = 1001
    /\ Len(alert_history) = 1000
    /\ 1 \notin Range(alert_history)
    /\ alerts_by_hour(34)[1].count > 0

\* C6: no two alerts in the store have the same id.
C6_AlertIdsUnique ==
    /\ \A i, j \in DOMAIN alerts :
          i # j => LiveAlerts[i].id # LiveAlerts[j].id
    /\ \A i, j \in DOMAIN alert_history :
          i # j => HistoryAlerts[i].id # HistoryAlerts[j].id

\* C7: every stored alert has a severity in {low, medium, high, critical}
\* and a status in {open, investigating, resolved} (an alert stored without
\* a status field counts as open, the default).
C7_EnumeratedFields ==
    \A i \in DOMAIN alertObjs :
        /\ alertObjs[i].severity \in {"low", "medium", "high", "critical"}
        /\ "status" \in alertObjs[i].keys =>
              alertObjs[i].status \in {"open", "investigating", "resolved"}

\* C8: an alert ingested without a status field is open: the query with
\* status=open succeeds and returns it, and the summary succeeds and counts
\* it among the open alerts.
C8_DefaultStatusOpen ==
    \A i \in DOMAIN alerts :
        "status" \notin LiveAlerts[i].keys =>
            /\ get_alerts(1000, 0, "", "open").code = 200
            /\ LiveAlerts[i] \in Range(get_alerts(1000, 0, "", "open").body)
            /\ get_dashboard_summary(34).code = 200
            /\ get_dashboard_summary(34).open_alerts >= 1

\* C9: update_status with a status outside {open, investigating, resolved},
\* or with an id that is not in the store, is answered with a client error,
\* changes no alert and starts no broadcast.
C9_RejectedUpdateChangesNothing ==
    [][\A id \in AlertIds, st \in StatusInputs :
          (/\ update_alert_status(id, st)
           /\ (st \notin {"open", "investigating", "resolved"} \/ id \notin StoredIds))
          =>
              /\ resp'.op = "update_alert_status" /\ resp'.code \in {400, 404}
              /\ UNCHANGED <<alertObjs, alerts, alert_history>>
              /\ UNCHANGED <<manager, network_manager, tasks>>
              /\ lastBroadcast' = NoBroadcast]_vars

\* C9 witness: an update with an invalid status for a stored alert has just
\* been rejected, after an accepted update of the same alert.
C9_Witness ==
    /\ resp.op = "update_alert_status" /\ resp.code = 400
    /\ \E i \in DOMAIN alerts : LiveAlerts[i].status = "investigating"

\* The weight 2 * (1, 3, 5, 10) of the open alerts among the first n of the
\* live list.
RECURSIVE OpenWeight(_)
OpenWeight(n) ==
    IF n = 0 THEN 0
    ELSE LET a == alertObjs[alerts[n]]
             w == IF "status" \in a.keys /\ a.status = "open"
                  THEN CASE a.severity = "low" -> 1
                         [] a.severity = "medium" -> 3
                         [] a.severity = "high" -> 5
                         [] a.severity = "critical" -> 10
                         [] OTHER -> 0
                  ELSE 0
         IN  w + OpenWeight(n - 1)

\* C10: in every state of the store the summary reports security_score =
\* max(0, 100 - min(2 * weighted_sum, 100)) over the open alerts, a value in
\* [0, 100], and ingesting one more open critical alert does not increase it.
C10_SecurityScore ==
    /\ [](/\ get_dashboard_summary(34).code = 200
          /\ get_dashboard_summary(34).security_score =
                Max(0, 100 - Min(2 * OpenWeight(Len(alerts)), 100))
          /\ get_dashboard_summary(34).security_score \in 0..100)
    /\ [][receive_alert(FullAlert(1, "critical", "open")) =>
             get_dashboard_summary(34).security_score'
                <= get_dashboard_summary(34).security_score]_vars

\* The alerts of the live list that match the filters of a query, in the
\* order of the list; an empty filter matches every alert.
Matching(severity, status) ==
    SelectSeq(LiveAlerts,
              LAMBDA a : /\ (severity = "" \/ a.severity = severity)
                         /\ (status = "" \/
                               ("status" \in a.keys /\ a.status = status)))

\* C11: the live list is in reverse ingestion order, and the query with
\* limit, offset and optional severity and status filters succeeds and
\* returns the elements offset .. offset+limit-1 of the alerts that match.
C11_QueryFiltersThenPaginates ==
    /\ alerts = [i \in 1..Len(alertObjs) |-> Len(alertObjs) + 1 - i]
    /\ \A limit \in 1..3, offset \in 0..3,
          severity \in {"", "high", "critical"},
          status \in {"", "open", "resolved"} :
          LET r == get_alerts(limit, offset, severity, status)
              m == Matching(severity, status)
          IN  /\ r.code = 200
              /\ r.body = [i \in 1..Max(0, Min(limit, Len(m) - offset)) |->
                              m[offset + i]]

\* C12: delivery is at most once per client: no alert-channel client that
\* has received its initial snapshot has received an ingested alert both in
\* that snapshot and as a push, and none has received the push of one
\* ingestion twice.
C12_AtMostOnceDelivery ==
    \A w \in DOMAIN ws :
        /\ ws[w].initials > 0 =>
              \A i \in DOMAIN ws[w].pushed :
                  ws[w].pushed[i] \notin Range(ws[w].snapshot)
        /\ \A i, j \in DOMAIN ws[w].pushed :
              i # j => ws[w].pushed[i] # ws[w].pushed[j]

\* C13: a client whose connect on the alert channel succeeded is sent one
\* initial message, no more; its content is the first min(50, n) entries of
\* the live list as it stood when the connection was registered, the newest
\* alerts, newest first.
C13_OneInitialSnapshot ==
    \A w \in DOMAIN ws :
        ws[w].ch = "alerts" =>
            /\ ws[w].initials = IF ws[w].pc = "initial" THEN 0 ELSE 1
            /\ ws[w].snapshot =
                  [i \in 1..Min(50, ws[w].regCount) |-> ws[w].regCount + 1 - i]

\* C13 witness: a client that registered when the live list held 51 alerts
\* has received its initial message, of 50 alerts, and another alert has been
\* ingested since.
C13_Witness ==
    \E w \in DOMAIN ws :
        /\ ws[w].ch = "alerts" /\ ws[w].pc = "recv" /\ ws[w].initials = 1
        /\ ws[w].regCount = 51 /\ Len(ws[w].snapshot) = 50
        /\ Len(alerts) = 52

\* C14: a failed send is terminal for its connection: no send is attempted
\* to a connection after a send to it has failed, and when a broadcast call
\* returns, every connection it failed to send to is off the registry.
C14_FailedSendIsTerminal ==
    /\ \A t \in tasks : ~t.late
    /\ lastBroadcast.outcome = "returned" =>
          lastBroadcast.failed \cap ActiveIds(Mgr(lastBroadcast.ch)) = {}

\* What disconnect(id) is to do to a registry m, d being the registry after
\* the call: an active id is removed and counted once, and for an id that is
\* not active nothing changes.
DisconnectEffect(m, d, id) ==
    IF id \in ActiveIds(m)
    THEN /\ ActiveIds(d) = ActiveIds(m) \ {id}
         /\ d.stats = [m.stats EXCEPT !.total_disconnections = @ + 1]
    ELSE d = m

\* C15: disconnect is idempotent on both registries: disconnect(id) of an
\* active id removes it and adds one to total_disconnections, disconnect(id)
\* of an id that is not active (a second disconnect of the same id too)
\* changes neither the registry nor a counter; and in every step of the
\* program total_disconnections grows by the number of ids that left the
\* registry.
C15_DisconnectIdempotent ==
    /\ [](\A id \in DOMAIN ws :
            /\ DisconnectEffect(manager, CM_disconnect(manager, id), id)
            /\ CM_disconnect(CM_disconnect(manager, id), id)
                  = CM_disconnect(manager, id)
            /\ DisconnectEffect(network_manager,
                                NCM_disconnect(network_manager, id), id)
            /\ NCM_disconnect(NCM_disconnect(network_manager, id), id)
                  = NCM_disconnect(network_manager, id))
    /\ [][/\ manager'.stats.total_disconnections
               - manager.stats.total_disconnections
               = Cardinality(ActiveIds(manager) \ ActiveIds(manager'))
          /\ network_manager'.stats.total_disconnections
               - network_manager.stats.total_disconnections
               = Cardinality(ActiveIds(network_manager)
                             \ ActiveIds(network_manager'))]_vars

\* C15 witness: a client was removed by the clean-up of a broadcast whose
\* send to it failed, and its endpoint has since called disconnect for it
\* again and returned; one disconnection is counted.
C15_Witness ==
    /\ \E w \in DOMAIN ws : ws[w].pc = "closed" /\ ws[w].stale
    /\ manager.stats.total_connections = 1
    /\ manager.stats.total_disconnections = 1
    /\ network_manager.stats.total_connections = 0
    /\ ActiveIds(manager) = {}

\* A broadcast call on channel ch starts in this step: the handler of a newly
\* accepted request is suspended in it or has finished it.
BroadcastStarts(ch) ==
    /\ nreq' = nreq + 1
    /\ \/ \E t \in tasks' : t.req = nreq' /\ t.ch = ch
       \/ lastBroadcast'.req = nreq' /\ lastBroadcast'.ch = ch

\* C16: every broadcast call adds exactly one to messages_sent of its
\* registry, whatever the number of active connections and of failed sends,
\* and no other step changes messages_sent: the two counters add up to the
\* number of requests that called broadcast.
C16_MessagesSentPerBroadcast ==
    /\ [](manager.stats.messages_sent + network_manager.stats.messages_sent
            = nreq)
    /\ [][/\ manager'.stats.messages_sent =
               manager.stats.messages_sent
                 + (IF BroadcastStarts("alerts") THEN 1 ELSE 0)
          /\ network_manager'.stats.messages_sent =
               network_manager.stats.messages_sent
                 + (IF BroadcastStarts("network") THEN 1 ELSE 0)]_vars

\* C16 witness: a broadcast over two connections, with a failed send, has
\* returned and messages_sent of its registry is 1.
C16_Witness ==
    /\ lastBroadcast.outcome = "returned"
    /\ Cardinality(lastBroadcast.started) = 2
    /\ lastBroadcast.failed # {}
    /\ Mgr(lastBroadcast.ch).stats.messages_sent = 1

\* C17: ingesting a payload with the four required fields puts the alert at
\* the head of the live list, and the producer is answered success whenever
\* the handler answers: also when sends of the broadcast failed and when the
\* whole broadcast failed.
C17_IngestSucceedsDespiteSendFailures ==
    /\ [](resp.op = "receive_alert" /\ resp.req > 0 => resp.code = 200)
    /\ [][\A p \in Payloads :
             (HasRequiredFields(p) /\ receive_alert(p)) =>
                 /\ Len(alerts') = Len(alerts) + 1
                 /\ alertObjs'[alerts'[1]] = p
                 /\ resp'.code \in {0, 200}]_vars

\* C17 witness: the producer of an alert has been answered success after a
\* broadcast in which a send failed and which then failed as a whole.
C17_Witness ==
    /\ resp.op = "receive_alert" /\ resp.code = 200
    /\ lastBroadcast.req = resp.req
    /\ lastBroadcast.failed # {}
    /\ lastBroadcast.outcome = "RuntimeError"
    /\ Len(alerts) = 1

\* C18: with the default thresholds and weights, predict for the input
\* {packet_rate: 150, bytes_transferred: 600000, port_number: 20} returns a
\* score above 0.6, the label threat and the threat type "Port Scanning".
C18_PortScanScenario ==
    [][(default_model = NewModel /\ predict(ScanInput)) =>
          /\ ml_result'.error = ""
          /\ RatLess(Rat(6, 10), ml_result'.confidence)
          /\ ml_result'.label = "threat"
          /\ ml_result'.threat_type = "Port Scanning"]_vars

\* C19: with the default thresholds and weights, the score predict returns
\* lies in [0, 1] for every feature vector, whatever its values and
\* whichever features it carries.
C19_ScoreInUnitInterval ==
    [][\A f \in FeatureInputs :
          (default_model = NewModel /\ predict(f)) =>
              /\ ml_result'.error = ""
              /\ ~RatLess(ml_result'.confidence, Rat(0, 1))
              /\ ~RatLess(Rat(1, 1), ml_result'.confidence)]_vars

\* C20: after every call of update_weights, the weights of the seven
\* features sum to 1; names of the map that are not features add no entry
\* to the table.
C20_WeightsSumToOne ==
    /\ DOMAIN default_model.weights = FeatureNames
    /\ ml_result.op = "update_weights" =>
          /\ ml_result.error = ""
          /\ WeightSum(default_model.weights, Len(Features)) = Rat(1, 1)

-----------------------------------------------------------------------------
(* The polling loops *)

\* C21: the background polling worker never changes the shared alert list
\* from its own thread: no step of the monitoring thread changes the list;
\* a result of the worker reaches the list only in a step of the event loop
\* that owns it.
C21_WorkerHandsOff ==
    [][api_alerts' # api_alerts =>
          loops'["run_monitor_thread"] = loops["run_monitor_thread"]]_vars

\* C22: an unexpected error raised inside one iteration of a polling loop
\* is logged and the loop goes on; no polling loop that has logged an error
\* has ended.
C22_ErrorNeverEndsLoop ==
    \A l \in LoopNames : loops[l].errors > 0 => loops[l].pc # "ended"

-----------------------------------------------------------------------------
(* One broadcast pass *)

\* C23: within one broadcast pass during which nothing else changes the
\* registry, a failed send does not stop the pass: while the pass goes on
\* the registry is left as it was (failing connections stay registered) and
\* the next send goes to a connection not yet attempted; when the pass ends
\* it returns, every connection active at the start has been attempted
\* exactly once, and exactly the connections whose send failed have been
\* removed.
C23_PassVisitsAll ==
    [][\A t \in tasks :
          (t \notin tasks' /\ Mgr(t.ch).active_connections = t.reg) =>
             IF \E u \in tasks' : u.req = t.req
             THEN /\ Mgr(t.ch)'.active_connections = t.reg
                  /\ \A u \in tasks' : u.req = t.req =>
                        /\ Range(u.failed) \subseteq ActiveIds(Mgr(t.ch)')
                        /\ u.cur \in t.started \ t.attempted
             ELSE /\ lastBroadcast'.outcome = "returned"
                  /\ lastBroadcast'.attempted = t.started
                  /\ t.it.di_used - t.it.len = Cardinality(t.started)
                  /\ lastBroadcast'.failed =
                        {c \in t.started : c \in Range(t.failed) \/
                                           (c = t.cur /\ ~ws[c].alive)}
                  /\ ActiveIds(Mgr(t.ch)') =
                        t.started \ lastBroadcast'.failed]_vars

\* A pass over two connections has returned: the send to the connection
\* registered first failed, the other connection was sent the alert after
\* that, and only the first has been removed.
C23_Witness ==
    /\ lastBroadcast.outcome = "returned"
    /\ lastBroadcast.ch = "alerts"
    /\ Cardinality(lastBroadcast.attempted) = 2
    /\ Cardinality(lastBroadcast.failed) = 1
    /\ Len(manager.active_connections) = 2
    /\ manager.active_connections[1] = 0
    /\ manager.active_connections[2] # 0
    /\ manager.active_connections[2] \notin lastBroadcast.failed
    /\ ws[manager.active_connections[2]].pushed # <<>>

-----------------------------------------------------------------------------
(* Status updates *)

\* The alert object update_alert_status finds for an id: the first alert of
\* the live list that has the id.
FirstWithId(id) ==
    alerts[CHOOSE i \in DOMAIN alerts :
              /\ LiveAlerts[i].id = id
              /\ \A j \in DOMAIN alerts : LiveAlerts[j].id = id => i <= j]

\* C24: update_status(id, s) with s one of open, investigating, resolved and
\* id in the store succeeds whatever the current status of the alert is:
\* afterwards the status of the alert found for the id is s, its other
\* fields and every other alert are as before, the live list and the
\* history are as before, and broadcast was called exactly once, on the
\* alert registry.
C24_UpdateStatus ==
    [][\A id \in AlertIds, st \in {"open", "investigating", "resolved"} :
          (/\ update_alert_status(id, st)
           /\ \E i \in DOMAIN alerts : LiveAlerts[i].id = id)
          =>
             LET ref == FirstWithId(id)
             IN  /\ resp' = [req |-> nreq + 1, op |-> "update_alert_status",
                             code |-> 200]
                 /\ DOMAIN alertObjs' = DOMAIN alertObjs
                 /\ alertObjs'[ref].status = st
                 /\ "status" \in alertObjs'[ref].keys
                 /\ alertObjs'[ref].keys \ {"status"} =
                       alertObjs[ref].keys \ {"status"}
                 /\ alertObjs'[ref].id = alertObjs[ref].id
                 /\ alertObjs'[ref].severity = alertObjs[ref].severity
                 /\ alertObjs'[ref].timestamp = alertObjs[ref].timestamp
                 /\ \A r \in DOMAIN alertObjs \ {ref} :
                       alertObjs'[r] = alertObjs[r]
                 /\ alerts' = alerts
                 /\ alert_history' = alert_history
                 /\ manager'.stats.messages_sent =
                       manager.stats.messages_sent + 1
                 /\ network_manager' = network_manager
                 /\ lastBroadcast'.ch = "alerts"
                 /\ lastBroadcast'.req = nreq + 1
                 /\ lastBroadcast'.outcome = "returned"]_vars

\* C24 witness: an update has just succeeded and the store holds an alert
\* that is being investigated (no producer sends that status) next to an
\* alert with another id.
C24_Witness ==
    /\ resp.op = "update_alert_status" /\ resp.code = 200
    /\ lastBroadcast.ch = "alerts"
    /\ \E i, j \in DOMAIN alerts :
          /\ LiveAlerts[i].status = "investigating"
          /\ LiveAlerts[j].id # LiveAlerts[i].id

-----------------------------------------------------------------------------
(* Readers of the store *)

\* C25: the two updates of a successful ingest are atomic for readers: in
\* every state a query, get, summary or snapshot can observe, every alert
\* created is in the live list, every alert of the history is in the live
\* list, and each of the 1000 newest alerts of the live list is in the
\* history.
C25_IngestAtomic ==
    /\ Len(alerts) = Len(alertObjs)
    /\ \A r \in Range(alert_history) : r \in Range(alerts)
    /\ \A i \in DOMAIN alerts :
          i <= HistoryMaxLen => alerts[i] \in Range(alert_history)

\* C25 witness: while the handler of an ingest is suspended in its
\* broadcast, a dashboard has connected and taken its snapshot of the live
\* list: the snapshot holds the new alert, and so does the history.
C25_Witness ==
    \E t \in tasks, w \in DOMAIN ws :
        /\ t.op \in IngestOps
        /\ ws[w].pc = "initial"
        /\ w \notin t.started
        /\ t.ref \in Range(ws[w].snapshot)
        /\ t.ref \in Range(alert_history)

-----------------------------------------------------------------------------
(* Client messages *)

-----------------------------------------------------------------------------
(* The two channels *)

\* The WebSockets that connected on a channel and whose endpoint has not
\* returned (the record of a closed WebSocket keeps no channel).
OnChannel(ch) == {w \in DOMAIN ws : ws[w].ch = ch}

\* C27: the two channels are isolated.  A broadcast of telemetry sends only
\* to connections of the telemetry channel and a broadcast of an alert or
\* of a status update only to connections of the alert channel; only
\* alert-channel clients are ever pushed an alert.  Ingesting telemetry, and
\* every send of its broadcast, leaves the alert list, the history and the
\* alert registry with its counters unchanged; ingesting an alert, and
\* every send of its broadcast, leaves the telemetry registry, its counters
\* and the telemetry buffers unchanged.
C27_ChannelsIsolated ==
    /\ [](\A t \in tasks :
             /\ (t.ch = "network") <=> (t.op = "receive_network_data")
             /\ \A c \in t.started \cup t.attempted \cup {t.cur} :
                   c \in OnChannel(t.ch) \/ ws[c].pc = "closed")
    /\ [](\A w \in DOMAIN ws : ws[w].pushed # <<>> => ws[w].ch = "alerts")
    /\ [][/\ (\E d \in NetworkPayloads : receive_network_data(d)) =>
                /\ UNCHANGED <<alertObjs, alerts, alert_history, manager>>
                /\ network_manager'.stats.messages_sent =
                      network_manager.stats.messages_sent + 1
          /\ ((\E p \in Payloads : HasRequiredFields(p) /\ receive_alert(p))
                 \/ test_alert) =>
                /\ UNCHANGED <<network_manager, network_data>>
                /\ manager'.stats.messages_sent =
                      manager.stats.messages_sent + 1
          /\ \A t \in tasks :
                BroadcastStep(t) =>
                   IF t.ch = "network"
                   THEN /\ UNCHANGED <<alertObjs, alerts, alert_history,
                                       manager>>
                        /\ \A w \in OnChannel("alerts") : ws'[w] = ws[w]
                   ELSE /\ UNCHANGED <<network_manager, network_data>>
                        /\ \A w \in OnChannel("network") : ws'[w] = ws[w]]_vars

\* C27 witness: the broadcast of a telemetry payload is suspended in its
\* send to a telemetry client while a dashboard is registered on the alert
\* channel; the alert registry has counted no message.
C27_Witness ==
    \E t \in tasks, v \in DOMAIN ws :
        /\ t.op = "receive_network_data"
        /\ ws[t.cur].ch = "network"
        /\ ws[v].ch = "alerts" /\ ws[v].pc = "recv"
        /\ v \in ActiveIds(manager)
        /\ manager.stats.messages_sent = 0
        /\ network_manager.stats.messages_sent = 1

-----------------------------------------------------------------------------
(* The counters of a registry *)

\* C28: in every reachable state of a channel's registry the number of
\* active connections is total_connections - total_disconnections, whatever
\* the interleaving of connect (with a generated or a caller-supplied id,
\* also one that is already active), disconnect, broadcast and
\* send_to_client.
C28_ActiveIsConnectsMinusDisconnects ==
    \A ch \in Channels :
        Used(Mgr(ch).active_connections) =
            Mgr(ch).stats.total_connections
                - Mgr(ch).stats.total_disconnections

-----------------------------------------------------------------------------
(* The history and the live list *)

\* The alert GET /test-alert created as the r-th alert of the store.
TestAlertAt(r) == AlertDict(AllFields, 100 + (r - 1), "medium", 10, "open")

\* C29: after n successful ingests, through /api/alert or /test-alert, the
\* history holds exactly the min(n, 1000) alerts ingested last, in the
\* order of ingestion: it is the reverse of the first min(n, 1000) entries
\* of the live list, so every alert of the history is in the live list.
C29_HistoryMirrorsLiveList ==
    LET n == nreq
        k == IF n < 1000 THEN n ELSE 1000
    IN  /\ Len(alerts) = n
        /\ Len(alert_history) = k
        /\ \A i \in 1..k : alert_history[i] = alerts[k + 1 - i]
        /\ \A i \in 1..k : alert_history[i] = n - k + i
        /\ \A r \in Range(alert_history) : r \in Range(alerts)

\* C29 witness: 1001 alerts were ingested through both endpoints; the
\* history is full and starts with the second alert, the live list still
\* ends with the first.
C29_Witness ==
    /\ nreq = 1001
    /\ Len(alert_history) = 1000
    /\ alert_history[1] = 2
    /\ alerts[1001] = 1
    /\ \E r, q \in Range(alert_history) :
          alertObjs[r] = TestAlertAt(r) /\ alertObjs[q] = EvictPayload(q)

-----------------------------------------------------------------------------
(* The order of pushes *)

\* C30: pushes keep the storage order for each client: no send of an alert
\* to a client is started once that client has been pushed an alert stored
\* later, also when the broadcast passes of the two ingestions interleave
\* at their sends.  (References number the alerts in storage order.)
C30_PushesInStorageOrder ==
    [][\A u \in tasks' \ tasks :
          u.ref # 0 =>
             \A b \in Range(ws'[u.cur].pushed) : b < u.ref]_vars

====
